---- MODULE Spec2Model ----
(***************************************************************************)
(* Model of Eigen's Select expression (Eigen/src/Core/Select.h): the       *)
(* traits of the node (Flags, CoeffReadCost), its constructor with the     *)
(* two shape assertions, rows(), cols(), the two coeff accessors and the   *)
(* three DenseBase::select overloads.                                      *)
(*                                                                         *)
(* Three specifications:                                                   *)
(*   Spec       a caller builds one node with one of the select overloads, *)
(*              reads it and writes into the operand matrices;             *)
(*   SpecFlags  the Flags enumerator applied to operand flags;             *)
(*   SpecCost   the CoeffReadCost enumerator applied to operand costs.     *)
(***************************************************************************)
EXTENDS Integers, Sequences, FiniteSets

VARIABLES
  heap,         \* the caller's three operand expressions, by operand name
  status,       \* "none" | "built" | "aborted": outcome of Select::Select
  m_condition,  \* Select::m_condition
  m_then,       \* Select::m_then
  m_else,       \* Select::m_else
  mode,         \* per operand, what ::Nested resolved to: "ref" | "val"
  built_by,     \* the select overload that was called, and its scalar
  last,         \* the last call made: its name, arguments, result, reads
  writes,       \* number of caller writes into operand matrices so far
  tr            \* a traits instantiation: operand flags/costs and results

vars == <<heap, status, m_condition, m_then, m_else, mode, built_by, last,
          writes, tr>>

(***************************************************************************)
(* Bounds of the model.                                                    *)
(***************************************************************************)
MaxRows == 2
MaxCols == 2
MaxScalar == 2
MaxWrites == 1
MaxCost == 4

Ops == {"cond", "then", "else"}
Scalars == 0..MaxScalar
Modes == {"ref", "val"}

(***************************************************************************)
(* Dense expressions: a shape and one coefficient per coordinate.          *)
(***************************************************************************)
Coords(r, c) == (0..(r - 1)) \X (0..(c - 1))

Mat(r, c, f) == [rows |-> r, cols |-> c, val |-> f]

EmptyMat == Mat(0, 0, [x \in Coords(0, 0) |-> 0])

\* DenseBase::Constant(rows, cols, value): every coefficient is value.
Constant(r, c, k) == Mat(r, c, [x \in Coords(r, c) |-> k])

\* The matrices a caller passes: for each shape one matrix per operand role.
\* Conditions mix zero, one and larger non-zero values; at every coordinate
\* the then and the else matrix differ.
CondArg(r, c) == Mat(r, c, [x \in Coords(r, c) |-> (x[1] + x[2]) % (MaxScalar + 1)])
ThenArg(r, c) == Mat(r, c, [x \in Coords(r, c) |-> 1 + ((x[1] * c + x[2]) % MaxScalar)])
ElseArg(r, c) == Mat(r, c, [x \in Coords(r, c) |-> (x[1] * c + x[2]) % MaxScalar])

Shapes == (0..MaxRows) \X (0..MaxCols)

(***************************************************************************)
(* Operand storage (m_condition, m_then, m_else are of type T::Nested).    *)
(***************************************************************************)
NoMember == [kind |-> "val", to |-> "none", mat |-> EmptyMat]

\* faulty variant: the member is declared as a plain value instead of T::Nested
Store_byValue(md, op, M) == [kind |-> "val", to |-> op, mat |-> M]

\* Initialising a member of type T::Nested from the operand: a reference to
\* the caller's object, or a copy of it.
Store(md, op, M) ==
  IF md = "ref" THEN [kind |-> "ref", to |-> op, mat |-> EmptyMat]
                ELSE [kind |-> "val", to |-> op, mat |-> M]

\* The expression a member denotes now.
View(mem) == IF mem.kind = "ref" THEN heap[mem.to] ELSE mem.mat

\* operand.coeff(i, j)
OperandCoeff(mem, i, j) == View(mem).val[<<i, j>>]

\* operand.coeff(index): the index-th coefficient in storage order
\* (column-major, the library's default).
LinearCoord(M, k) == <<k % M.rows, k \div M.rows>>
OperandCoeffLinear(mem, k) == View(mem).val[LinearCoord(View(mem), k)]

(***************************************************************************)
(* Select::Select                                                          *)
(***************************************************************************)
\* ei_assert(x): continues when x holds, aborts the program otherwise.
ei_assert(x) == IF x THEN "ok" ELSE "abort"

\* faulty variant: the second assertion forgets the else operand
ColsAgree_noElse(c, t, e) == c.cols = t.cols

RowsAgree(c, t, e) == c.rows = t.rows /\ c.rows = e.rows
ColsAgree(c, t, e) == c.cols = t.cols /\ c.cols = e.cols

Select(c, t, e, md, how) ==
  /\ status = "none"
  /\ heap' = [heap EXCEPT !["cond"] = c, !["then"] = t, !["else"] = e]
  /\ m_condition' = Store(md["cond"], "cond", c)
  /\ m_then' = Store(md["then"], "then", t)
  /\ m_else' = Store(md["else"], "else", e)
  /\ mode' = md
  /\ built_by' = how
  /\ status' = IF /\ ei_assert(RowsAgree(c, t, e)) = "ok"
                  /\ ei_assert(ColsAgree(c, t, e)) = "ok"
               THEN "built" ELSE "aborted"
  /\ last' = [op |-> "construct", idx |-> <<>>, ret |-> 0, reads |-> <<>>]
  /\ UNCHANGED <<writes, tr>>

(***************************************************************************)
(* DenseBase::select, the three overloads.                                 *)
(***************************************************************************)
\* faulty variant: the promoted constant is built with rows and columns exchanged
PromoteElse_transposed(c, k) == Constant(c.cols, c.rows, k)

\* ThenDerived::Constant(rows(), cols(), elseScalar), rows() and cols() being
\* those of the invoking (condition) expression.
PromoteElse(c, k) == Constant(c.rows, c.cols, k)

\* ElseDerived::Constant(rows(), cols(), thenScalar)
PromoteThen(c, k) == Constant(c.rows, c.cols, k)

\* select(thenMatrix, elseMatrix)
select_mm(c, t, e, md) ==
  Select(c, t, e, md, [overload |-> "mm", k |-> 0])

\* select(thenMatrix, elseScalar); the promoted constant is a temporary
\* expression, which ::Nested holds by value.
select_ms(c, t, k, md) ==
  /\ md["else"] = "val"
  /\ Select(c, t, PromoteElse(c, k), md, [overload |-> "ms", k |-> k])

\* select(thenScalar, elseMatrix)
select_sm(c, k, e, md) ==
  /\ md["then"] = "val"
  /\ Select(c, PromoteThen(c, k), e, md, [overload |-> "sm", k |-> k])

(***************************************************************************)
(* Select::rows, Select::cols, Select::coeff                               *)
(***************************************************************************)
\* faulty variant: rows() answers with the column count
rows_swapped == View(m_condition).cols

rows == View(m_condition).rows
cols == View(m_condition).cols

\* faulty variant: only the value 1 counts as true
Truthy_onlyOne(x) == x = 1

\* if (x): the contextual conversion of a scalar to bool
Truthy(x) == x # 0

\* faulty variant: both branches are evaluated before the choice is made
coeff_eager(i, j) ==
  LET t == OperandCoeff(m_then, i, j)
      e == OperandCoeff(m_else, i, j)
  IN [ret |-> IF Truthy(OperandCoeff(m_condition, i, j)) THEN t ELSE e,
      reads |-> << <<"cond", <<i, j>> >>, <<"then", <<i, j>> >>,
                   <<"else", <<i, j>> >> >>]

\* coeff(Index i, Index j): the value returned and the operand reads made
coeff(i, j) ==
  IF Truthy(OperandCoeff(m_condition, i, j))
  THEN [ret |-> OperandCoeff(m_then, i, j),
        reads |-> << <<"cond", <<i, j>> >>, <<"then", <<i, j>> >> >>]
  ELSE [ret |-> OperandCoeff(m_else, i, j),
        reads |-> << <<"cond", <<i, j>> >>, <<"else", <<i, j>> >> >>]

\* coeff(Index i)
coeffLinear(k) ==
  IF Truthy(OperandCoeffLinear(m_condition, k))
  THEN [ret |-> OperandCoeffLinear(m_then, k),
        reads |-> << <<"cond", <<k>> >>, <<"then", <<k>> >> >>]
  ELSE [ret |-> OperandCoeffLinear(m_else, k),
        reads |-> << <<"cond", <<k>> >>, <<"else", <<k>> >> >>]

(***************************************************************************)
(* Calls a holder of the node makes.  The members are const and no         *)
(* accessor assigns anything: a call only produces its result.             *)
(***************************************************************************)
Frame == UNCHANGED <<heap, status, m_condition, m_then, m_else, mode,
                     built_by, writes, tr>>

CallRows ==
  /\ status = "built"
  /\ last' = [op |-> "rows", idx |-> <<>>, ret |-> rows, reads |-> <<>>]
  /\ Frame

CallCols ==
  /\ status = "built"
  /\ last' = [op |-> "cols", idx |-> <<>>, ret |-> cols, reads |-> <<>>]
  /\ Frame

\* faulty variant: the accessor stores the value it selected into the else operand
CallCoeff_writeBack(i, j) ==
  /\ status = "built"
  /\ i \in 0..(rows - 1) /\ j \in 0..(cols - 1)
  /\ last' = [op |-> "coeff", idx |-> <<i, j>>, ret |-> coeff(i, j).ret,
              reads |-> coeff(i, j).reads]
  /\ IF m_else.kind = "ref"
     THEN /\ heap' = [heap EXCEPT !["else"].val[<<i, j>>] = coeff(i, j).ret]
          /\ UNCHANGED m_else
     ELSE /\ m_else' = [m_else EXCEPT !.mat.val[<<i, j>>] = coeff(i, j).ret]
          /\ UNCHANGED heap
  /\ UNCHANGED <<status, m_condition, m_then, mode, built_by, writes, tr>>

CallCoeff(i, j) ==
  /\ status = "built"
  /\ i \in 0..(rows - 1) /\ j \in 0..(cols - 1)
  /\ last' = [op |-> "coeff", idx |-> <<i, j>>, ret |-> coeff(i, j).ret,
              reads |-> coeff(i, j).reads]
  /\ Frame

CallCoeffLinear(k) ==
  /\ status = "built"
  /\ k \in 0..(rows * cols - 1)
  /\ last' = [op |-> "coeffLinear", idx |-> <<k>>, ret |-> coeffLinear(k).ret,
              reads |-> coeffLinear(k).reads]
  /\ Frame

(***************************************************************************)
(* The caller assigns a coefficient of one of its operand matrices while   *)
(* the node is alive (Mutate steps a coefficient to the next scalar).  A   *)
(* promoted constant is a temporary the caller cannot name.                *)
(***************************************************************************)
Promoted(op) ==
  \/ built_by.overload = "ms" /\ op = "else"
  \/ built_by.overload = "sm" /\ op = "then"

Write(op, i, j, v) ==
  /\ status = "built"
  /\ writes < MaxWrites
  /\ ~Promoted(op)
  /\ <<i, j>> \in Coords(heap[op].rows, heap[op].cols)
  /\ v # heap[op].val[<<i, j>>]
  /\ heap' = [heap EXCEPT ![op].val[<<i, j>>] = v]
  /\ writes' = writes + 1
  /\ last' = [op |-> "write", idx |-> <<i, j>>, ret |-> v, reads |-> <<>>]
  /\ UNCHANGED <<status, m_condition, m_then, m_else, mode, built_by, tr>>

(***************************************************************************)
(* Specification of the node in use.                                       *)
(***************************************************************************)
NoTraits == [flags |-> [op \in Ops |-> 0], cost |-> [op \in Ops |-> 0],
             done |-> FALSE, Flags |-> 0, CoeffReadCost |-> 0]

\* No node has been built yet; the caller's matrices are default-constructed.
NoNode ==
  /\ heap = [op \in Ops |-> EmptyMat]
  /\ status = "none"
  /\ m_condition = NoMember
  /\ m_then = NoMember
  /\ m_else = NoMember
  /\ mode = [op \in Ops |-> "val"]
  /\ built_by = [overload |-> "none", k |-> 0]
  /\ last = [op |-> "none", idx |-> <<>>, ret |-> 0, reads |-> <<>>]
  /\ writes = 0

Init ==
  /\ NoNode
  /\ tr = NoTraits

\* The caller's three ways to build the node, over every operand it may pass.
Build_mm ==
  /\ status = "none"
  /\ \E sc \in Shapes, st \in Shapes, se \in Shapes, md \in [Ops -> Modes] :
       select_mm(CondArg(sc[1], sc[2]), ThenArg(st[1], st[2]),
                 ElseArg(se[1], se[2]), md)

Build_ms ==
  /\ status = "none"
  /\ \E sc \in Shapes, st \in Shapes, k \in Scalars, md \in [Ops -> Modes] :
       select_ms(CondArg(sc[1], sc[2]), ThenArg(st[1], st[2]), k, md)

Build_sm ==
  /\ status = "none"
  /\ \E sc \in Shapes, se \in Shapes, k \in Scalars, md \in [Ops -> Modes] :
       select_sm(CondArg(sc[1], sc[2]), k, ElseArg(se[1], se[2]), md)

ReadCoeff ==
  /\ status = "built"
  /\ \E i \in 0..(rows - 1), j \in 0..(cols - 1) : CallCoeff(i, j)

ReadCoeffLinear ==
  /\ status = "built"
  /\ \E k \in 0..(rows * cols - 1) : CallCoeffLinear(k)

Mutate ==
  /\ status = "built"
  /\ writes < MaxWrites
  /\ \E op \in Ops :
       \E x \in Coords(heap[op].rows, heap[op].cols) :
         Write(op, x[1], x[2], (heap[op].val[x] + 1) % (MaxScalar + 1))

Next ==
  \/ Build_mm
  \/ Build_ms
  \/ Build_sm
  \/ CallRows
  \/ CallCols
  \/ ReadCoeff
  \/ ReadCoeffLinear
  \/ Mutate

Spec == Init /\ [][Next]_vars

(***************************************************************************)
(* ei_traits<Select>: Flags and CoeffReadCost.                             *)
(***************************************************************************)
\* Flag bits of the library (util/Constants.h).
RowMajorBit == 1
EvalBeforeNestingBit == 2
EvalBeforeAssigningBit == 4
PacketAccessBit == 8
LinearAccessBit == 16

HereditaryBits == RowMajorBit + EvalBeforeNestingBit + EvalBeforeAssigningBit

FlagBits == {RowMajorBit, EvalBeforeNestingBit, EvalBeforeAssigningBit,
             PacketAccessBit, LinearAccessBit}
AllFlags == 0..(2 * LinearAccessBit - 1)
Costs == 0..MaxCost

\* a & b on unsigned int
RECURSIVE BitAnd(_, _)
BitAnd(a, b) ==
  IF a = 0 \/ b = 0 THEN 0
  ELSE (a % 2) * (b % 2) + 2 * BitAnd(a \div 2, b \div 2)

\* faulty variant: the condition's flags take part in the conjunction
Flags_withCondition(C, T, E) == BitAnd(BitAnd(BitAnd(C, T), E), HereditaryBits)

\* Flags = (unsigned int)ThenMatrixType::Flags & ElseMatrixType::Flags
\*         & HereditaryBits
Flags(C, T, E) == BitAnd(BitAnd(T, E), HereditaryBits)

\* EIGEN_SIZE_MAX(a, b): the larger of two sizes
EIGEN_SIZE_MAX(a, b) == IF a >= b THEN a ELSE b

\* faulty variant: the cost of the then operand stands for both branches
CoeffReadCost_thenOnly(C, T, E) == C + T

\* CoeffReadCost = condition cost + EIGEN_SIZE_MAX(then cost, else cost)
CoeffReadCost(C, T, E) == C + EIGEN_SIZE_MAX(T, E)

\* Instantiating ei_traits<Select<C, T, E> > evaluates its enumerators.
Instantiate ==
  /\ ~tr.done
  /\ tr' = [tr EXCEPT
       !.done = TRUE,
       !.Flags = Flags(tr.flags["cond"], tr.flags["then"], tr.flags["else"]),
       !.CoeffReadCost =
         CoeffReadCost(tr.cost["cond"], tr.cost["then"], tr.cost["else"])]
  /\ UNCHANGED <<heap, status, m_condition, m_then, m_else, mode, built_by,
                 last, writes>>

InitFlags ==
  /\ NoNode
  /\ \E f \in [Ops -> AllFlags] : tr = [NoTraits EXCEPT !.flags = f]

InitCost ==
  /\ NoNode
  /\ \E c \in [Ops -> Costs] : tr = [NoTraits EXCEPT !.cost = c]

NextTraits == Instantiate

SpecFlags == InitFlags /\ [][NextTraits]_vars

SpecCost == InitCost /\ [][NextTraits]_vars

\* The node's Flags carry LinearAccessBit.
NodeLinearAccessible == tr.done /\ (tr.Flags \div LinearAccessBit) % 2 = 1

(***************************************************************************)
(* Properties.                                                             *)
(***************************************************************************)
CondNow == View(m_condition)
ThenNow == View(m_then)
ElseNow == View(m_else)
NodeCoords == Coords(heap["cond"].rows, heap["cond"].cols)
Reads == {"rows", "cols", "coeff", "coeffLinear"}

\* C1: on a node built from operands of equal shape, coeff(i,j) is the then
\* coefficient at (i,j) when the condition coefficient at (i,j) is not zero
\* (any non-zero value), and the else coefficient at (i,j) when it is zero;
\* this holds at every coordinate, and for the value a call returned.
C1_CoeffIsTernary ==
  status = "built" =>
    /\ \A x \in NodeCoords :
         /\ CondNow.val[x] # 0 => coeff(x[1], x[2]).ret = ThenNow.val[x]
         /\ CondNow.val[x] = 0 => coeff(x[1], x[2]).ret = ElseNow.val[x]
    /\ last.op = "coeff" =>
         /\ CondNow.val[last.idx] # 0 => last.ret = ThenNow.val[last.idx]
         /\ CondNow.val[last.idx] = 0 => last.ret = ElseNow.val[last.idx]

\* C1 witness: a call read a condition coefficient that is neither 0 nor 1
\* and returned the then coefficient, which differs from the else one.
C1_Witness ==
  /\ status = "built" /\ last.op = "coeff"
  /\ CondNow.val[last.idx] = 2
  /\ last.ret = ThenNow.val[last.idx]
  /\ last.ret # ElseNow.val[last.idx]

ShapeMismatch ==
  \E op \in {"then", "else"} :
    \/ heap[op].rows # heap["cond"].rows
    \/ heap[op].cols # heap["cond"].cols

\* C2: when the then or the else operand differs from the condition in its
\* row count or its column count, construction ends in the failed
\* assertion: no node is built, and no call on the node has returned.
C2_MismatchAborts ==
  (status # "none" /\ ShapeMismatch) =>
    /\ status = "aborted"
    /\ last.op = "construct"

\* C2 witness: construction failed where only the else operand's column
\* count differs from the condition's.
C2_Witness ==
  /\ status = "aborted"
  /\ heap["then"].rows = heap["cond"].rows
  /\ heap["else"].rows = heap["cond"].rows
  /\ heap["then"].cols = heap["cond"].cols
  /\ heap["else"].cols # heap["cond"].cols

\* C3: for every built node, whichever overload built it and whatever its
\* shape, rows() and cols() are the row and column counts of the condition
\* expression, in every state of the node's life.
C3_ShapeIsConditions ==
  status = "built" =>
    /\ rows = heap["cond"].rows
    /\ cols = heap["cond"].cols
    /\ last.op = "rows" => last.ret = heap["cond"].rows
    /\ last.op = "cols" => last.ret = heap["cond"].cols

\* C3 witness: rows() was called on a node of zero rows and MaxCols columns
\* built by the scalar/matrix overload.
C3_Witness ==
  /\ status = "built" /\ built_by.overload = "sm"
  /\ heap["cond"].rows = 0 /\ heap["cond"].cols = MaxCols
  /\ last.op = "rows" /\ last.ret = 0

\* C4: a node built by select(then, k) holds as else operand an expression
\* of the condition's shape whose every coefficient is k, so its coeff is,
\* at every coordinate, the then coefficient or k; symmetrically for
\* select(k, else); and when a scalar overload fails its assertion, the
\* matrix operand, not the promoted one, differs in shape.
C4_ScalarPromotion ==
  /\ (status = "built" /\ built_by.overload = "ms") =>
       /\ ElseNow.rows = heap["cond"].rows /\ ElseNow.cols = heap["cond"].cols
       /\ \A x \in NodeCoords :
            /\ ElseNow.val[x] = built_by.k
            /\ coeff(x[1], x[2]).ret =
                 IF CondNow.val[x] # 0 THEN ThenNow.val[x] ELSE built_by.k
  /\ (status = "built" /\ built_by.overload = "sm") =>
       /\ ThenNow.rows = heap["cond"].rows /\ ThenNow.cols = heap["cond"].cols
       /\ \A x \in NodeCoords :
            /\ ThenNow.val[x] = built_by.k
            /\ coeff(x[1], x[2]).ret =
                 IF CondNow.val[x] # 0 THEN built_by.k ELSE ElseNow.val[x]
  /\ (status = "aborted" /\ built_by.overload = "ms") =>
       \/ heap["then"].rows # heap["cond"].rows
       \/ heap["then"].cols # heap["cond"].cols
  /\ (status = "aborted" /\ built_by.overload = "sm") =>
       \/ heap["else"].rows # heap["cond"].rows
       \/ heap["else"].cols # heap["cond"].cols

\* C4 witness: on a non-square node built by select(then, k), a call read a
\* zero condition coefficient and returned k.
C4_Witness ==
  /\ status = "built" /\ built_by.overload = "ms"
  /\ heap["cond"].rows # heap["cond"].cols
  /\ last.op = "coeff"
  /\ CondNow.val[last.idx] = 0
  /\ last.ret = built_by.k

\* C5: a step that is a rows(), cols() or coeff call leaves the caller's
\* operands and the node's three members as they were, and a coeff call
\* that directly follows a coeff call with the same arguments returns the
\* same value.
C5_ReadsChangeNothing ==
  [][ /\ last'.op \in Reads =>
           /\ heap' = heap
           /\ m_condition' = m_condition
           /\ m_then' = m_then
           /\ m_else' = m_else
      /\ (/\ last.op \in {"coeff", "coeffLinear"}
          /\ last'.op = last.op
          /\ last'.idx = last.idx) => last'.ret = last.ret
    ]_vars

\* C5 witness: coeff was called on a node that holds its else operand by
\* reference and its condition by value.
C5_Witness ==
  /\ status = "built" /\ last.op = "coeff"
  /\ mode["else"] = "ref" /\ mode["cond"] = "val"

\* C6: a bit is set in the node's Flags exactly when it is set in the then
\* operand's flags, in the else operand's flags and in HereditaryBits; no
\* other bit is set, and any other flags of the condition give the same
\* Flags.
C6_FlagsAreThenAndElse ==
  tr.done =>
    /\ tr.Flags \in AllFlags
    /\ \A b \in FlagBits :
         ((tr.Flags \div b) % 2 = 1) <=>
           /\ (tr.flags["then"] \div b) % 2 = 1
           /\ (tr.flags["else"] \div b) % 2 = 1
           /\ (HereditaryBits \div b) % 2 = 1
    /\ \A c \in AllFlags :
         Flags(c, tr.flags["then"], tr.flags["else"]) = tr.Flags

\* C6 witness: then and else are row-major and linear-accessible, the
\* condition is neither; the node is row-major and not linear-accessible.
C6_Witness ==
  /\ tr.done
  /\ tr.flags["cond"] = 0
  /\ tr.flags["then"] = RowMajorBit + LinearAccessBit
  /\ tr.flags["else"] = RowMajorBit + LinearAccessBit + PacketAccessBit
  /\ tr.Flags = RowMajorBit

\* C7: the node's CoeffReadCost is the condition's cost plus the larger of
\* the then and the else cost; it is at least every operand's cost and at
\* most the sum of the three.
C7_CostIsCondPlusMax ==
  tr.done =>
    /\ tr.CoeffReadCost >= tr.cost["cond"] + tr.cost["then"]
    /\ tr.CoeffReadCost >= tr.cost["cond"] + tr.cost["else"]
    /\ \/ tr.CoeffReadCost = tr.cost["cond"] + tr.cost["then"]
       \/ tr.CoeffReadCost = tr.cost["cond"] + tr.cost["else"]
    /\ \A op \in Ops : tr.CoeffReadCost >= tr.cost[op]
    /\ tr.CoeffReadCost <= tr.cost["cond"] + tr.cost["then"] + tr.cost["else"]

\* C7 witness: the else operand costs more than the then operand and the
\* condition costs something.
C7_Witness ==
  /\ tr.done
  /\ tr.cost["cond"] = 1 /\ tr.cost["then"] = 1 /\ tr.cost["else"] = MaxCost
  /\ tr.CoeffReadCost = 1 + MaxCost

\* C9: a coeff call, two-index or linear, makes exactly two operand reads:
\* first the condition at the arguments of the call, then the then operand
\* (when that condition coefficient is not zero) or the else operand (when
\* it is zero) at the same arguments.
C9_ReadsCondThenOneBranch ==
  (status = "built" /\ last.op \in {"coeff", "coeffLinear"}) =>
    /\ Len(last.reads) = 2
    /\ last.reads[1] = <<"cond", last.idx>>
    /\ last.reads[2][2] = last.idx
    /\ last.reads[2][1] \in {"then", "else"}
    /\ last.op = "coeff" =>
         (last.reads[2][1] = "then" <=> CondNow.val[last.idx] # 0)
    /\ last.op = "coeffLinear" =>
         (last.reads[2][1] = "then" <=>
            OperandCoeffLinear(m_condition, last.idx[1]) # 0)

\* C9 witness: a two-index call took the else branch.
C9_Witness ==
  /\ status = "built" /\ last.op = "coeff"
  /\ last.reads = << <<"cond", last.idx>>, <<"else", last.idx>> >>

\* The operand as the ownership decision taken at construction presents it:
\* the caller's object for "ref", the node's own copy for "val".
Held(op, mem, hp) == IF mode[op] = "ref" THEN hp[op] ELSE mem.mat

\* C10: every coeff(i,j) call returns the choice computed from the operand
\* values of the moment of the call (for an operand held by reference, the
\* caller's current values), and once the node is built the ownership
\* decision of each operand never changes.
C10_NoCaching ==
  [][ /\ (status = "built" /\ last'.op = "coeff") =>
           LET x == last'.idx
               c == Held("cond", m_condition, heap').val[x]
           IN last'.ret = IF c # 0 THEN Held("then", m_then, heap').val[x]
                                   ELSE Held("else", m_else, heap').val[x]
      /\ status = "built" =>
           /\ mode' = mode
           /\ m_condition'.kind = m_condition.kind
           /\ m_then'.kind = m_then.kind
           /\ m_else'.kind = m_else.kind
    ]_vars

\* C10 witness: a call returned the else coefficient because the condition
\* coefficient it read, held by reference, was written to zero after
\* construction.
C10_Witness ==
  /\ status = "built" /\ last.op = "coeff" /\ writes > 0
  /\ mode["cond"] = "ref"
  /\ heap["cond"].val[last.idx] = 0
  /\ CondArg(heap["cond"].rows, heap["cond"].cols).val[last.idx] # 0
  /\ last.ret = ElseNow.val[last.idx]

====
